---- MODULE Spec2Model ----
(***************************************************************************)
(* A model of micrograd.py: the scalar autograd engine (class Value, its   *)
(* operators and backward()) and the one consumer step that feeds a bare   *)
(* number into it (Neuron.__call__).                                       *)
(*                                                                         *)
(* Objects live in an arena: nodes[j] is the j-th Value constructed, and a *)
(* reference to a Value is its index.  A closure `_backward` is the node's *)
(* op tag together with the variables it captured (self, other, the        *)
(* exponent); `out` is the node itself.                                    *)
(*                                                                         *)
(* Numbers are integers.  The floating-point operations are computed only  *)
(* where their result is an integer: x ** e with e < 0 for x in {1, -1},   *)
(* math.exp(x) for x = 0.  The actions guard their inputs accordingly.     *)
(***************************************************************************)
EXTENDS Integers, Sequences, FiniteSets

VARIABLES
    nodes,    \* the arena: every Value constructed so far
    res,      \* what the operator call in progress or last finished returned
    pc,       \* "idle", "rcall" (inside a reflected operator), "prop" (inside backward's loop)
    depth,    \* Python call depth of the reflected operator in progress
    root,     \* the Value backward() was last called on
    topo,     \* backward(): the list build_topo filled
    order,    \* backward(): reversed(topo)
    i,        \* backward(): position of the loop in order
    ran,      \* backward(): the nodes whose _backward has been invoked, in order
    gStart,   \* the grads at the moment backward() was entered
    calls,    \* number of backward() calls made
    again     \* the backward() call in progress or last finished has the root of the call before it

vars == <<nodes, res, pc, depth, root, topo, order, i, ran, gStart, calls, again>>

\* Bounds of the model: the number of Values constructed and of backward()
\* calls made, in the specifications Spec and SpecCore and in SpecWide.
MaxNodes == 3
MaxCalls == 1
WideNodes == 4
WideCalls == 2

\* The depth at which the interpreter stops a recursion (sys.getrecursionlimit(),
\* 1000 by default); any value shows the same behaviour.
RecursionLimit == 2

\* Inputs: the data of constructed Values, bare numbers, exponents.
Data == {-1, 0, 2}
Lits == {-1}
Exps == {-1, 2}

----------------------------------------------------------------------------
\* Arithmetic

RECURSIVE Power(_, _)
\* x ** e.  For e < 0 it is the reciprocal of x ** -e, which for x in {1, -1}
\* is x ** -e itself.
Power(x, e) ==
    IF e = 0 THEN 1
    ELSE IF e > 0 THEN x * Power(x, e - 1)
    ELSE Power(x, -e)

\* Where x ** e is an integer the model can compute.
PowerDefined(x, e) == e >= 0 \/ x \in {1, -1}

\* math.exp(x), at the one argument where it is an integer.
Exp(x) == CASE x = 0 -> 1

\* The expression of line 77.
TanhData(x) == (Exp(x) - 1) \div (Exp(x) + 1)

Reversed(s) == [j \in 1..Len(s) |-> s[Len(s) + 1 - j]]

----------------------------------------------------------------------------
\* Value construction and the operators, as functions on the arena

\* Value.__init__: grad starts at 0; self, other, exp are what the node's
\* _backward closure captures (0 where it captures nothing).
Value(d, children, o, s, t, e) ==
    [data |-> d, grad |-> 0, prev |-> children, op |-> o,
     self |-> s, other |-> t, exp |-> e]

Leaf(d) == Value(d, {}, "", 0, 0, 0)

\* grad += d and grad = d on nodes[j].
AddGrad(ns, j, d) == [ns EXCEPT ![j].grad = @ + d]
SetGrad(ns, j, d) == [ns EXCEPT ![j].grad = d]

\* An operand is a Value (by index) or a bare number.
IsValue(x) == x.kind = "Value"
Ref(j) == [kind |-> "Value", ix |-> j, val |-> 0]
Num(k) == [kind |-> "num", ix |-> 0, val |-> k]
Operands(ns) == {Ref(j) : j \in 1..Len(ns)} \cup {Num(k) : k \in Lits}

\* `other if isinstance(other, Value) else Value(other)`: the arena after the
\* promotion and the index of `other` in it.
Promote(ns, x) ==
    IF IsValue(x) THEN <<ns, x.ix>>
    ELSE <<Append(ns, Leaf(x.val)), Len(ns) + 1>>

\* Each operator returns the arena after the call; the result is its last node.
add(ns, a, x) ==
    LET p == Promote(ns, x)
        ms == p[1]
        b == p[2]
    IN Append(ms, Value(ms[a].data + ms[b].data, {a, b}, "+", a, b, 0))

\* __mul__ with the gradient written at once into self, not by the closure.
mul_eager(ns, a, x) ==
    LET p == Promote(ns, x)
        ms == p[1]
        b == p[2]
        out == Value(ms[a].data * ms[b].data, {a, b}, "*", a, b, 0)
    IN Append(AddGrad(ms, a, ms[b].data), out)

mul(ns, a, x) ==
    LET p == Promote(ns, x)
        ms == p[1]
        b == p[2]
    IN Append(ms, Value(ms[a].data * ms[b].data, {a, b}, "*", a, b, 0))

pow(ns, a, e) ==
    Append(ns, Value(Power(ns[a].data, e), {a}, "**", a, 0, e))

\* __neg__ returns a bare number.
neg(ns, a) == -1 * ns[a].data

\* -other for either kind of operand: always a bare number.
Negated(ns, x) == IF IsValue(x) THEN neg(ns, x.ix) ELSE -x.val

sub(ns, a, x) == add(ns, a, Num(Negated(ns, x)))

\* other ** -1 is a new Value when other is one, a bare number otherwise.
truediv(ns, a, x) ==
    IF IsValue(x)
    THEN LET ms == pow(ns, x.ix, -1) IN mul(ms, a, Ref(Len(ms)))
    ELSE mul(ns, a, Num(Power(x.val, -1)))

tanh(ns, a) ==
    Append(ns, Value(TanhData(ns[a].data), {a}, "tanh", a, 0, 0))

----------------------------------------------------------------------------
\* The _backward closures

\* The closure of __add__ (lines 19-21), for out = nodes[v].
add_backward(ns, v) ==
    LET ms == AddGrad(ns, ns[v].self, 1)
    IN AddGrad(ms, ns[v].other, 1)

\* The closure of __mul__ (lines 32-34).
mul_backward(ns, v) ==
    LET a == ns[v].self
        b == ns[v].other
        ms == AddGrad(ns, a, ns[b].data * ns[v].grad)
    IN AddGrad(ms, b, ms[a].data * ms[v].grad)

\* The closure of __pow__ (lines 45-46).
pow_backward(ns, v) ==
    LET a == ns[v].self
        e == ns[v].exp
    IN SetGrad(ns, a, e * Power(ns[a].data, e - 1))

\* The closure of tanh (lines 79-80).
tanh_backward(ns, v) ==
    AddGrad(ns, ns[v].self, 1 - Power(ns[v].data, 2))

\* v._backward(): the closure stored on the node; `lambda: None` on a Value
\* that no operator returned.
call_backward(ns, v) ==
    CASE ns[v].op = "+" -> add_backward(ns, v)
      [] ns[v].op = "*" -> mul_backward(ns, v)
      [] ns[v].op = "**" -> pow_backward(ns, v)
      [] ns[v].op = "tanh" -> tanh_backward(ns, v)
      [] OTHER -> ns

----------------------------------------------------------------------------
\* backward(): the topological sort

RECURSIVE build_topo(_, _, _), for_children(_, _, _)

\* build_topo(v) started with the locals st = [visited, topo]: the set of
\* values the locals can have when it returns.  _prev is a set of objects
\* hashed by identity, so the loop over it may take the children in any order.
build_topo(ns, v, st) ==
    IF v \in st.visited THEN {st}
    ELSE LET st1 == [visited |-> st.visited \cup {v}, topo |-> st.topo]
         IN {[visited |-> s.visited, topo |-> Append(s.topo, v)] :
                s \in for_children(ns, ns[v].prev, st1)}

\* `for child in v._prev: build_topo(child)` over the children still to take.
for_children(ns, todo, st) ==
    IF todo = {} THEN {st}
    ELSE UNION {UNION {for_children(ns, todo \ {c}, s) : s \in build_topo(ns, c, st)} :
                    c \in todo}

\* The lists topo can be after build_topo(self) at line 96.
Topos(ns, r) == {s.topo : s \in build_topo(ns, r, [visited |-> {}, topo |-> <<>>])}

\* The loop of lines 99-100 without `reversed`.
LoopOrderForward(t) == t

\* The order in which the loop of lines 99-100 takes the nodes.
LoopOrder(t) == Reversed(t)

Grads(ns) == [j \in 1..Len(ns) |-> ns[j].grad]

----------------------------------------------------------------------------
\* The state machine

NoRes == [op |-> "", kind |-> "none", out |-> 0, val |-> 0, a |-> 0, x |-> Num(0)]

\* An operator call on self = a and other = x that returned the Value nodes[o].
Returned(name, o, a, x) ==
    [op |-> name, kind |-> "Value", out |-> o, val |-> 0, a |-> a, x |-> x]

\* An operator call on self = a and other = x that is in progress ("pending"),
\* raised (the exception's name) or returned the bare number v ("number").
Outcome(name, k, a, x, v) ==
    [op |-> name, kind |-> k, out |-> 0, val |-> v, a |-> a, x |-> x]

Init ==
    /\ nodes = <<>>
    /\ res = NoRes
    /\ pc = "idle"
    /\ depth = 0
    /\ root = 0
    /\ topo = <<>>
    /\ order = <<>>
    /\ i = 0
    /\ ran = <<>>
    /\ gStart = <<>>
    /\ calls = 0
    /\ again = FALSE

\* The locals of the last backward() call are gone once another call is made.
DropLocals ==
    /\ topo' = <<>>
    /\ order' = <<>>
    /\ i' = 0
    /\ ran' = <<>>
    /\ gStart' = <<>>
    /\ again' = FALSE
    /\ UNCHANGED <<root, calls>>

\* An operator call that runs to its return: the arena becomes ms, the call
\* leaves r.
Finish(ms, r) ==
    /\ nodes' = ms
    /\ res' = r
    /\ pc' = "idle"
    /\ depth' = 0
    /\ DropLocals

\* A call that enters a reflected operator (__radd__, __rmul__) of a Value with
\* a bare number on the left.
Enter(ms, r) ==
    /\ nodes' = ms
    /\ res' = r
    /\ pc' = "rcall"
    /\ depth' = 1
    /\ DropLocals

\* Value(d)
NewValue ==
    /\ pc = "idle"
    /\ \E d \in Data :
        LET ms == Append(nodes, Leaf(d))
        IN Finish(ms, Returned("Value", Len(ms), 0, Num(d)))

\* a + x
AddOp ==
    /\ pc = "idle"
    /\ \E a \in 1..Len(nodes), x \in Operands(nodes) :
        LET ms == add(nodes, a, x)
        IN Finish(ms, Returned("add", Len(ms), a, x))

\* a * x
MulOp ==
    /\ pc = "idle"
    /\ \E a \in 1..Len(nodes), x \in Operands(nodes) :
        LET ms == mul(nodes, a, x)
        IN Finish(ms, Returned("mul", Len(ms), a, x))

\* a ** e with a number e
PowOp ==
    /\ pc = "idle"
    /\ \E a \in 1..Len(nodes), e \in Exps :
        /\ PowerDefined(nodes[a].data, e)
        /\ LET ms == pow(nodes, a, e)
           IN Finish(ms, Returned("pow", Len(ms), a, Num(e)))

\* a ** b with a Value b: the assert of line 41 fails.
PowAssert ==
    /\ pc = "idle"
    /\ \E a \in 1..Len(nodes), b \in 1..Len(nodes) :
        Finish(nodes, Outcome("pow", "AssertionError", a, Ref(b), 0))

\* -a
NegOp ==
    /\ pc = "idle"
    /\ \E a \in 1..Len(nodes) :
        Finish(nodes, Outcome("neg", "number", a, Num(0), neg(nodes, a)))

\* a - x
SubOp ==
    /\ pc = "idle"
    /\ \E a \in 1..Len(nodes), x \in Operands(nodes) :
        LET ms == sub(nodes, a, x)
        IN Finish(ms, Returned("sub", Len(ms), a, x))

\* a / x
TruedivOp ==
    /\ pc = "idle"
    /\ \E a \in 1..Len(nodes), x \in Operands(nodes) :
        /\ PowerDefined(IF IsValue(x) THEN nodes[x.ix].data ELSE x.val, -1)
        /\ LET ms == truediv(nodes, a, x)
           IN Finish(ms, Returned("truediv", Len(ms), a, x))

\* a.tanh()
TanhOp ==
    /\ pc = "idle"
    /\ \E a \in 1..Len(nodes) :
        /\ nodes[a].data = 0
        /\ LET ms == tanh(nodes, a)
           IN Finish(ms, Returned("tanh", Len(ms), a, Num(0)))

\* k + a: the number's __add__ declines a Value, so Python calls a.__radd__(k).
RAddOp ==
    /\ pc = "idle"
    /\ \E k \in Lits, a \in 1..Len(nodes) :
        Enter(nodes, Outcome("radd", "pending", a, Num(k), 0))

\* k * a: likewise a.__rmul__(k).
RMulOp ==
    /\ pc = "idle"
    /\ \E k \in Lits, a \in 1..Len(nodes) :
        Enter(nodes, Outcome("rmul", "pending", a, Num(k), 0))

\* k - a: a.__rsub__(k) is k + (-a), a sum of two bare numbers.
RSubOp ==
    /\ pc = "idle"
    /\ \E k \in Lits, a \in 1..Len(nodes) :
        Finish(nodes, Outcome("rsub", "number", a, Num(k), k + neg(nodes, a)))

\* k / a: a.__rtruediv__(k) builds a ** -1 and multiplies the number k by it,
\* which calls (a ** -1).__rmul__(k).
RTruedivOp ==
    /\ pc = "idle"
    /\ \E k \in Lits, a \in 1..Len(nodes) :
        /\ PowerDefined(nodes[a].data, -1)
        /\ Enter(pow(nodes, a, -1), Outcome("rtruediv", "pending", a, Num(k), 0))

\* Neuron.__call__ of a neuron with one weight w on the input [x]: the
\* generator yields w * x, and sum() adds it to its start value self.b = 0,
\* which calls (w * x).__radd__(0).
NeuronCall ==
    /\ pc = "idle"
    /\ \E w \in 1..Len(nodes), x \in Operands(nodes) :
        /\ nodes[w].op = ""
        /\ Enter(mul(nodes, w, x), Outcome("neuron", "pending", w, x, 0))

\* The body of __radd__ / __rmul__, `other + self` / `other * self` with a
\* number as other: the number declines again and Python calls the same
\* reflected method again, one frame deeper.
Redispatch ==
    /\ pc = "rcall"
    /\ depth < RecursionLimit
    /\ depth' = depth + 1
    /\ UNCHANGED <<nodes, res, pc, root, topo, order, i, ran, gStart, calls, again>>

\* The interpreter's frame limit ends the recursion.
RecursionError ==
    /\ pc = "rcall"
    /\ depth >= RecursionLimit
    /\ res' = [res EXCEPT !.kind = "RecursionError"]
    /\ pc' = "idle"
    /\ depth' = 0
    /\ UNCHANGED <<nodes, root, topo, order, i, ran, gStart, calls, again>>

\* r.backward(), lines 88-98: the sort and the seed.
BackwardCall ==
    /\ pc = "idle"
    /\ \E r \in 1..Len(nodes) :
        \E t \in Topos(nodes, r) :
            /\ topo' = t
            /\ order' = LoopOrder(t)
            /\ i' = 1
            /\ ran' = <<>>
            /\ gStart' = Grads(nodes)
            /\ nodes' = SetGrad(nodes, r, 1)
            /\ again' = (calls >= 1 /\ r = root)
            /\ root' = r
    /\ calls' = calls + 1
    /\ pc' = "prop"
    /\ UNCHANGED <<res, depth>>

\* One iteration of the loop of lines 99-100.
PropagateStep ==
    /\ pc = "prop"
    /\ i <= Len(order)
    /\ nodes' = call_backward(nodes, order[i])
    /\ ran' = Append(ran, order[i])
    /\ i' = i + 1
    /\ UNCHANGED <<res, pc, depth, root, topo, order, gStart, calls, again>>

\* The loop is over; backward() returns.
BackwardReturn ==
    /\ pc = "prop"
    /\ i > Len(order)
    /\ pc' = "idle"
    /\ UNCHANGED <<nodes, res, depth, root, topo, order, i, ran, gStart, calls, again>>

\* The bounds of a specification: at most n Values, at most c backward() calls.
Within(n, c) == Len(nodes') <= n /\ calls' <= c

\* The whole program.
Next ==
    \/ NewValue /\ Within(MaxNodes, MaxCalls)
    \/ AddOp /\ Within(MaxNodes, MaxCalls)
    \/ MulOp /\ Within(MaxNodes, MaxCalls)
    \/ PowOp /\ Within(MaxNodes, MaxCalls)
    \/ PowAssert /\ Within(MaxNodes, MaxCalls)
    \/ NegOp /\ Within(MaxNodes, MaxCalls)
    \/ SubOp /\ Within(MaxNodes, MaxCalls)
    \/ TruedivOp /\ Within(MaxNodes, MaxCalls)
    \/ TanhOp /\ Within(MaxNodes, MaxCalls)
    \/ RAddOp /\ Within(MaxNodes, MaxCalls)
    \/ RMulOp /\ Within(MaxNodes, MaxCalls)
    \/ RSubOp /\ Within(MaxNodes, MaxCalls)
    \/ RTruedivOp /\ Within(MaxNodes, MaxCalls)
    \/ NeuronCall /\ Within(MaxNodes, MaxCalls)
    \/ Redispatch /\ Within(MaxNodes, MaxCalls)
    \/ RecursionError /\ Within(MaxNodes, MaxCalls)
    \/ BackwardCall /\ Within(MaxNodes, MaxCalls)
    \/ PropagateStep /\ Within(MaxNodes, MaxCalls)
    \/ BackwardReturn /\ Within(MaxNodes, MaxCalls)

Spec == Init /\ [][Next]_vars

\* The engine alone: the operators that return a Value, and backward().
NextCore ==
    \/ NewValue /\ Within(MaxNodes, MaxCalls)
    \/ AddOp /\ Within(MaxNodes, MaxCalls)
    \/ MulOp /\ Within(MaxNodes, MaxCalls)
    \/ PowOp /\ Within(MaxNodes, MaxCalls)
    \/ SubOp /\ Within(MaxNodes, MaxCalls)
    \/ TruedivOp /\ Within(MaxNodes, MaxCalls)
    \/ TanhOp /\ Within(MaxNodes, MaxCalls)
    \/ BackwardCall /\ Within(MaxNodes, MaxCalls)
    \/ PropagateStep /\ Within(MaxNodes, MaxCalls)
    \/ BackwardReturn /\ Within(MaxNodes, MaxCalls)

SpecCore == Init /\ [][NextCore]_vars

\* The engine alone, with room for two operands and a composed operator on
\* them, and for a second backward() call.
NextWide ==
    \/ NewValue /\ Within(WideNodes, WideCalls)
    \/ AddOp /\ Within(WideNodes, WideCalls)
    \/ MulOp /\ Within(WideNodes, WideCalls)
    \/ PowOp /\ Within(WideNodes, WideCalls)
    \/ SubOp /\ Within(WideNodes, WideCalls)
    \/ TruedivOp /\ Within(WideNodes, WideCalls)
    \/ TanhOp /\ Within(WideNodes, WideCalls)
    \/ BackwardCall /\ Within(WideNodes, WideCalls)
    \/ PropagateStep /\ Within(WideNodes, WideCalls)
    \/ BackwardReturn /\ Within(WideNodes, WideCalls)

SpecWide == Init /\ [][NextWide]_vars

----------------------------------------------------------------------------
\* Vocabulary of the properties

RECURSIVE Reach(_, _)
\* The nodes reachable from r through the producer relation, r included.
Reach(ns, r) == {r} \cup UNION {Reach(ns, c) : c \in ns[r].prev}

\* backward() has returned and its locals are still in view.
Returned_backward == pc = "idle" /\ topo # <<>>

\* backward() is in its loop, about to invoke the _backward of a node with op o.
AboutToPropagate(o) == pc = "prop" /\ i <= Len(order) /\ nodes[order[i]].op = o

\* All grads were 0 when backward() was entered.
ZeroStart == \A j \in DOMAIN gStart : gStart[j] = 0

\* The uses of node n under the root: the operand slots of reachable nodes
\* that hold n.
Uses(n) ==
    {u \in Reach(nodes, root) \X {"self", "other"} :
        IF u[2] = "self" THEN nodes[u[1]].self = n ELSE nodes[u[1]].other = n}

\* The derivative of node c with respect to the operand in the given slot: what
\* the use contributes to the operand's grad when c's own grad is 1.
Contribution(c, slot) ==
    LET n == nodes[c]
    IN CASE n.op = "+" -> 1
         [] n.op = "*" -> IF slot = "self" THEN nodes[n.other].data
                          ELSE nodes[n.self].data
         [] n.op = "**" -> n.exp * Power(nodes[n.self].data, n.exp - 1)
         [] n.op = "tanh" -> 1 - Power(n.data, 2)
         [] OTHER -> 0

\* Every consumer of n under the root holds grad 1, so that each use of n
\* contributes its derivative as it is.
UnitConsumers(n) == \A u \in Uses(n) : nodes[u[1]].grad = 1

RECURSIVE SumOver(_)
\* The sum of the contributions of a set of uses.
SumOver(us) ==
    IF us = {} THEN 0
    ELSE LET u == CHOOSE w \in us : TRUE
         IN Contribution(u[1], u[2]) + SumOver(us \ {u})

----------------------------------------------------------------------------
\* C1: one backward() call invokes the _backward of every node reachable from
\* the root exactly once, and a node's only after that of every reachable
\* consumer of it: topo lists each reachable node once, after all its
\* producers, and the loop replays it in reverse.
C1_ReverseTopological ==
    (pc = "prop" \/ Returned_backward) =>
        LET R == Reach(nodes, root)
        IN /\ {topo[j] : j \in DOMAIN topo} = R
           /\ Len(topo) = Cardinality(R)
           /\ \A j \in DOMAIN topo : \A c \in nodes[topo[j]].prev :
                \E k \in 1..(j - 1) : topo[k] = c
           /\ \A j \in DOMAIN ran : ran[j] = topo[Len(topo) + 1 - j]
           /\ \A j, k \in DOMAIN ran : j # k => ran[j] # ran[k]
           /\ \A j \in DOMAIN ran : \A c \in R :
                ran[j] \in nodes[c].prev => \E k \in 1..(j - 1) : ran[k] = c
           /\ Returned_backward => {ran[j] : j \in DOMAIN ran} = R

\* A backward() call has returned on a graph in which a node feeds the root
\* along two paths, through two different consumers.
C1_Witness ==
    /\ Returned_backward
    /\ Len(ran) >= 3
    /\ \E n \in Reach(nodes, root) :
        Cardinality({c \in Reach(nodes, root) : n \in nodes[c].prev}) >= 2

\* C2: the _backward of an add node whose grad is g raises the grad of each of
\* its two producers by g (by 2g the one producer of a + a).
C2_AddPropagatesGrad ==
    [][AboutToPropagate("+") =>
        LET v == order[i]
            g == nodes[v].grad
            a == nodes[v].self
            b == nodes[v].other
        IN IF a = b
           THEN nodes'[a].grad = nodes[a].grad + 2 * g
           ELSE /\ nodes'[a].grad = nodes[a].grad + g
                /\ nodes'[b].grad = nodes[b].grad + g]_vars

\* C3: the _backward of a power node out = a ** p whose grad is g assigns
\* p * a.data ** (p - 1) * g to a.grad.
C3_PowPropagatesGrad ==
    [][AboutToPropagate("**") =>
        LET v == order[i]
            g == nodes[v].grad
            a == nodes[v].self
            e == nodes[v].exp
        IN nodes'[a].grad = e * Power(nodes[a].data, e - 1) * g]_vars

\* C4: the _backward of a node out = a.tanh() whose grad is g raises a.grad by
\* (1 - out.data ** 2) * g.
C4_TanhPropagatesGrad ==
    [][AboutToPropagate("tanh") =>
        LET v == order[i]
            g == nodes[v].grad
            a == nodes[v].self
        IN nodes'[a].grad = nodes[a].grad + (1 - Power(nodes[v].data, 2)) * g]_vars

\* C5: for c = a - b on two Values, b is reachable from c, and backward()
\* from c with all grads 0 gives a.grad = 1 and b.grad = -1.
C5_SubDifferentiable ==
    (res.op = "sub" /\ res.kind = "Value" /\ IsValue(res.x)) =>
        LET a == res.a
            b == res.x.ix
        IN /\ b \in Reach(nodes, res.out)
           /\ (Returned_backward /\ root = res.out /\ ZeroStart /\ a # b) =>
                (nodes[a].grad = 1 /\ nodes[b].grad = -1)

\* The data of an operand.
OperandData(x) == IF IsValue(x) THEN nodes[x.ix].data ELSE x.val

\* The scalar result of the call res records: k (op) a.data, and 0 + w.data * x
\* for the neuron.
Scalar(r) ==
    LET k == r.x.val
        d == nodes[r.a].data
    IN CASE r.op = "radd" -> k + d
         [] r.op = "rmul" -> k * d
         [] r.op = "rsub" -> k - d
         [] r.op = "rtruediv" -> k * Power(d, -1)
         [] r.op = "neuron" -> 0 + d * OperandData(r.x)

\* C6: k + a, k * a, k - a and k / a with a bare number k, and the sum
\* 0 + w * x of Neuron.__call__, do not dispatch to the same reflected method
\* again, and return a new Value that has a among its producers and the
\* scalar result as data.
C6_ReflectedReturnsValue ==
    (res.op \in {"radd", "rmul", "rsub", "rtruediv", "neuron"}) =>
        /\ depth <= 1
        /\ pc = "idle" =>
            /\ res.kind = "Value"
            /\ res.a \in Reach(nodes, res.out)
            /\ nodes[res.out].data = Scalar(res)

\* C7: for c = a / b on two distinct Values that no operator returned,
\* backward() from c with all grads 0 gives a.grad = 1 / b.data and
\* b.grad = -a.data / b.data ** 2.
C7_QuotientRule ==
    (/\ res.op = "truediv" /\ res.kind = "Value" /\ IsValue(res.x)
     /\ Returned_backward /\ root = res.out /\ ZeroStart
     /\ res.a # res.x.ix /\ nodes[res.a].op = "" /\ nodes[res.x.ix].op = "") =>
        LET a == nodes[res.a]
            b == nodes[res.x.ix]
        IN /\ a.grad * b.data = 1
           /\ b.grad * b.data * b.data = -a.data

\* C8: after backward() from a root with all grads 0, a node used more than
\* once under the root holds the sum of the contributions of all its uses
\* (stated for the nodes whose consumers hold grad 1, as in c = a + a and in
\* the diamond c = a * x + a * y).
C8_SharedAccumulates ==
    (Returned_backward /\ ZeroStart) =>
        \A n \in Reach(nodes, root) \ {root} :
            (Cardinality(Uses(n)) >= 2 /\ UnitConsumers(n)) =>
                nodes[n].grad = SumOver(Uses(n))

\* C9: after a second backward() on the same root, every other reachable node
\* holds its grad of before the call plus the contributions the call
\* propagated into it (stated for the nodes whose consumers hold grad 1, as
\* a and b in f = a * b).
C9_SecondCallAccumulates ==
    (Returned_backward /\ again) =>
        \A n \in Reach(nodes, root) \ {root} :
            UnitConsumers(n) => nodes[n].grad = gStart[n] + SumOver(Uses(n))

\* A step of an operator call, as opposed to one of backward().
OperatorStep == pc # "prop" /\ pc' # "prop"

\* The Values of before the step are what they were.
FrameOfStep ==
    /\ Len(nodes') >= Len(nodes)
    /\ \A j \in 1..Len(nodes) : nodes'[j] = nodes[j]

\* C10 as stated: an operator call changes no Value that exists, and every
\* producer of a Value it creates existed before the call.
C10_ProducersPredateCall ==
    [][OperatorStep =>
        /\ FrameOfStep
        /\ \A j \in (Len(nodes) + 1)..Len(nodes') :
            nodes'[j].prev \subseteq 1..Len(nodes)]_vars

\* C10, amended: an operator call changes no Value that exists, and every
\* producer of a Value it creates was constructed before that Value (before
\* the call, or earlier in it), so no Value is among its own transitive
\* producers.
C10_ProducersPredateNode ==
    [][OperatorStep =>
        /\ FrameOfStep
        /\ \A j \in (Len(nodes) + 1)..Len(nodes') :
            /\ nodes'[j].prev \subseteq 1..(j - 1)
            /\ nodes'[j].grad = 0
        /\ \A j \in 1..Len(nodes') : nodes'[j].prev \subseteq 1..(j - 1)]_vars

\* An operator with a bare number as operand has returned while an earlier
\* Value holds a grad that a backward() call left in it.
C10_Witness ==
    /\ pc = "idle"
    /\ res.op \in {"add", "mul", "sub", "truediv"}
    /\ res.kind = "Value"
    /\ ~IsValue(res.x)
    /\ res.out = Len(nodes)
    /\ nodes[res.a].grad # 0

====
